---- MODULE Spec2Model ----
(***************************************************************************)
(* Model of data_loader.py: the null/boolean normaliser, the schema        *)
(* aligner and the INSERT IGNORE loader, run against an abstract MySQL     *)
(* session (SHOW COLUMNS, ALTER TABLE ADD COLUMN, INSERT IGNORE, COMMIT),   *)
(* main's loop over LOAD_ORDER, and the typing of a file by pd.read_csv.    *)
(***************************************************************************)
EXTENDS Integers, Sequences, FiniteSets, TLC

(***************************************************************************)
(* Bounds of the exploration.                                              *)
(***************************************************************************)
MaxRows == 2
MaxLoads == 2
MaxPk == 2
MaxTextLen == 2
MaxAbsent == 1
SmallBatch == 1
MaxGen == 2

(***************************************************************************)
(* Cell values.  One record shape for every Python object a DataFrame cell *)
(* can hold: None, float nan/inf/-inf, int, float with an integral value,  *)
(* bool and str (a sequence of one-character strings).                     *)
(***************************************************************************)
NoneV == [kind |-> "none", n |-> 0, text |-> <<>>]
NaNV == [kind |-> "nan", n |-> 0, text |-> <<>>]
PosInfV == [kind |-> "inf", n |-> 0, text |-> <<>>]
NegInfV == [kind |-> "-inf", n |-> 0, text |-> <<>>]
IntV(i) == [kind |-> "int", n |-> i, text |-> <<>>]
FloatV(i) == [kind |-> "float", n |-> i, text |-> <<>>]
BoolV(b) == [kind |-> "bool", n |-> IF b THEN 1 ELSE 0, text |-> <<>>]
TextV(s) == [kind |-> "str", n |-> 0, text |-> s]

Range(s) == {s[i] : i \in DOMAIN s}

\* name a value once and use it in Body
Bind(v, Body(_)) == Body(v)

IsPrefix(s, t) == Len(s) <= Len(t) /\ SubSeq(t, 1, Len(s)) = s

(***************************************************************************)
(* str.lower() on the characters the model uses.                           *)
(***************************************************************************)
UpperCase == <<"A", "B", "C", "D", "E", "F", "G", "H", "I", "J", "K", "L", "M",
               "N", "O", "P", "Q", "R", "S", "T", "U", "V", "W", "X", "Y", "Z">>
LowerCase == <<"a", "b", "c", "d", "e", "f", "g", "h", "i", "j", "k", "l", "m",
               "n", "o", "p", "q", "r", "s", "t", "u", "v", "w", "x", "y", "z">>

LowerChar(c) ==
    IF \E i \in DOMAIN UpperCase : UpperCase[i] = c
    THEN LowerCase[CHOOSE i \in DOMAIN UpperCase : UpperCase[i] = c]
    ELSE c

Lower(s) == [i \in DOMAIN s |-> LowerChar(s[i])]

(***************************************************************************)
(* str(x) of a cell, as Series.astype(str) applies it to an object column. *)
(* Integers of the model are single decimal digits.                        *)
(***************************************************************************)
Digits == <<"0", "1", "2", "3", "4", "5", "6", "7", "8", "9">>

Str(v) ==
    CASE v.kind = "none" -> <<"N", "o", "n", "e">>
      [] v.kind = "nan" -> <<"n", "a", "n">>
      [] v.kind = "inf" -> <<"i", "n", "f">>
      [] v.kind = "-inf" -> <<"-", "i", "n", "f">>
      [] v.kind = "int" -> <<Digits[v.n + 1]>>
      [] v.kind = "float" -> <<Digits[v.n + 1], ".", "0">>
      [] v.kind = "bool" -> IF v.n = 1 THEN <<"T", "r", "u", "e">>
                                       ELSE <<"F", "a", "l", "s", "e">>
      [] OTHER -> v.text

(***************************************************************************)
(* The schema created by MYSQL_DDL_TEMPLATE: the column list of each table *)
(* in declaration order, the primary key first.  Tables are the two tables *)
(* whose loads are explored with datasets of every shape.                   *)
(***************************************************************************)
Tables == {"customers", "warehouses"}

DDL ==
    [brands |->
        <<"brand_id", "brand_name", "website_url">>,
     platforms |->
        <<"platform_id", "platform_code", "platform_name", "region">>,
     categories |->
        <<"category_id", "parent_category_id", "category_name",
          "category_path">>,
     products |->
        <<"product_id", "sku", "product_name", "category_id", "brand_id",
          "actual_price", "discounted_price", "discount_percentage", "rating",
          "rating_count", "about_product", "img_link", "product_link",
          "status", "unit_cost", "default_list_price">>,
     product_variants |->
        <<"variant_id", "product_id", "variant_sku", "size_code", "width_mm",
          "height_mm", "frame_material", "frame_finish", "frame_profile",
          "glazing_type", "mount_included_flag", "mount_color", "backing_type",
          "orientation", "unit_cost", "default_list_price", "weight_kg",
          "package_length_mm", "package_width_mm", "package_height_mm",
          "status">>,
     marketplace_accounts |->
        <<"account_id", "platform_id", "merchant_slug", "default_currency">>,
     product_listings |->
        <<"listing_id", "product_id", "variant_id", "platform_id",
          "account_id", "listing_sku", "title", "subtitle", "description_html",
          "bullets_json", "main_image_url", "additional_images_json",
          "amazon_asin", "amazon_marketplace_id", "amazon_fulfilment_channel",
          "ebay_item_id", "ebay_listing_type", "ebay_condition_id",
          "ebay_category_id", "is_active">>,
     listing_prices |->
        <<"price_id", "listing_id", "currency", "listing_price", "sale_price",
          "valid_from", "valid_to">>,
     platform_fees |->
        <<"platform_fee_id", "platform_id", "fee_type", "fee_percent",
          "fee_flat_amount">>,
     channel_inventory |->
        <<"channel_inventory_id", "listing_id", "on_hand_qty", "reserved_qty",
          "backorder_qty">>,
     customers |->
        <<"customer_id", "first_name", "last_name", "email", "phone", "gender",
          "age_group", "region", "signup_source", "preferred_platform",
          "repeat_customer_flag">>,
     orders |->
        <<"order_id", "order_number", "order_date", "platform_id",
          "account_id", "customer_id", "currency", "subtotal_amount",
          "discount_amount", "tax_amount", "shipping_amount",
          "channel_fee_amount", "total_amount", "order_status",
          "delivery_days">>,
     order_items |->
        <<"order_item_id", "order_id", "line_number", "product_id",
          "variant_id", "listing_id", "quantity", "unit_price",
          "line_subtotal", "line_discount", "line_tax", "line_total",
          "unit_cost", "margin_amount">>,
     order_fees |->
        <<"order_fee_id", "order_id", "platform_id", "fee_type", "fee_amount">>,
     payments |->
        <<"payment_id", "order_id", "payment_method", "provider_txn_id",
          "amount", "status">>,
     shipments |->
        <<"shipment_id", "order_id", "carrier", "tracking_number",
          "shipped_at", "delivered_at", "delivery_status">>,
     returns |->
        <<"return_id", "order_id", "return_number", "status", "initiated_at">>,
     return_items |->
        <<"return_item_id", "return_id", "order_item_id", "quantity_returned",
          "return_reason", "refund_amount">>,
     reviews |->
        <<"review_id", "product_id", "variant_id", "source_platform",
          "user_id", "user_name", "review_title", "review_content", "rating">>,
     warehouses |->
        <<"warehouse_id", "warehouse_code", "warehouse_name", "city",
          "country">>,
     inventory |->
        <<"inventory_id", "variant_id", "warehouse_id", "on_hand_qty",
          "reserved_qty", "reorder_point", "safety_stock">>]

PrimaryKey(t) == DDL[t][1]

\* BOOL_COLS.get(table, [])
BOOL_COLS ==
    [t \in DOMAIN DDL |->
        IF t = "product_variants" THEN <<"mount_included_flag">>
        ELSE IF t = "product_listings" THEN <<"is_active">>
        ELSE IF t = "customers" THEN <<"repeat_customer_flag">>
        ELSE <<>>]

LOAD_ORDER_MutInventoryEarly ==
    <<"brands", "platforms", "categories", "platform_fees", "marketplace_accounts",
      "products", "product_variants", "product_listings", "listing_prices",
      "channel_inventory", "customers", "orders", "order_items", "order_fees",
      "payments", "shipments", "returns", "return_items", "reviews", "inventory",
      "warehouses">>

LOAD_ORDER ==
    <<"brands", "platforms", "categories", "platform_fees", "marketplace_accounts",
      "products", "product_variants", "product_listings", "listing_prices",
      "channel_inventory", "customers", "orders", "order_items", "order_fees",
      "payments", "shipments", "returns", "return_items", "reviews", "warehouses",
      "inventory">>

BatchSize == 5000

(***************************************************************************)
(* DataFrames: an ordered column list and rows mapping column -> cell.     *)
(***************************************************************************)
MapCells(df, f(_, _)) ==
    [cols |-> df.cols,
     rows |-> [i \in DOMAIN df.rows |->
                 [c \in Range(df.cols) |-> f(c, df.rows[i][c])]]]

RECURSIVE Filter(_, _)
Filter(s, keep) ==
    IF s = <<>> THEN <<>>
    ELSE IF Head(s) \in keep THEN <<Head(s)>> \o Filter(Tail(s), keep)
         ELSE Filter(Tail(s), keep)

RECURSIVE FilterOut(_, _)
FilterOut(s, drop) ==
    IF s = <<>> THEN <<>>
    ELSE IF Head(s) \in drop THEN FilterOut(Tail(s), drop)
         ELSE <<Head(s)>> \o FilterOut(Tail(s), drop)

\* df[c] = v : overwrite the column in place, or append it when it is new
SetColumn(df, c, v) ==
    [cols |-> IF c \in Range(df.cols) THEN df.cols ELSE Append(df.cols, c),
     rows |-> [i \in DOMAIN df.rows |->
                 [d \in Range(df.cols) \cup {c} |->
                     IF d = c THEN v ELSE df.rows[i][d]]]]

\* for c in cs: df[c] = v  (cs has no repeated name)
SetColumns(df, cs, v) ==
    [cols |-> df.cols \o FilterOut(cs, Range(df.cols)),
     rows |-> [i \in DOMAIN df.rows |->
                 [d \in Range(df.cols) \cup Range(cs) |->
                     IF d \in Range(cs) THEN v ELSE df.rows[i][d]]]]

KeyErrorDf == [cols |-> <<"KeyError">>, rows |-> <<>>]

\* df[cs] : select the columns cs in that order; KeyError if one is absent
Select(df, cs) ==
    IF Range(cs) \subseteq Range(df.cols)
    THEN [cols |-> cs,
          rows |-> [i \in DOMAIN df.rows |-> [c \in Range(cs) |-> df.rows[i][c]]]]
    ELSE KeyErrorDf

(***************************************************************************)
(* normalise_nulls / to_bool_int                                           *)
(***************************************************************************)
NullTexts == {<<"n", "a", "n">>, <<"N", "a", "N">>, <<"N", "o", "n", "e">>, <<>>}

NormaliseValueMutAnyCase(v) ==
    IF v.kind \in {"nan", "inf", "-inf"} THEN NoneV
    ELSE IF v.kind = "str" /\ Lower(v.text) \in {Lower(x) : x \in NullTexts} THEN NoneV
    ELSE v

NormaliseValue(v) ==
    IF v.kind \in {"nan", "inf", "-inf"} THEN NoneV
    ELSE IF v.kind = "str" /\ v.text \in NullTexts THEN NoneV
    ELSE v

normalise_nulls(df) == MapCells(df, LAMBDA c, v : NormaliseValue(v))

TrueTexts == {<<"t", "r", "u", "e">>, <<"1">>, <<"t">>, <<"y", "e", "s">>, <<"y">>}

BoolIntMutNullKept(v) ==
    IF v = NoneV THEN NoneV
    ELSE IF Lower(Str(v)) \in TrueTexts THEN IntV(1) ELSE IntV(0)

BoolInt(v) == IF Lower(Str(v)) \in TrueTexts THEN IntV(1) ELSE IntV(0)

to_bool_int_MutAddsAbsent(df, cols) ==
    LET d == SetColumns(df, FilterOut(cols, Range(df.cols)), IntV(0))
    IN  MapCells(d, LAMBDA c, v : IF c \in Range(cols) THEN BoolInt(v) ELSE v)

to_bool_int(df, cols) ==
    MapCells(df, LAMBDA c, v : IF c \in Range(cols) THEN BoolInt(v) ELSE v)

(***************************************************************************)
(* The MySQL session: SHOW COLUMNS, ALTER TABLE ADD COLUMN, INSERT IGNORE. *)
(***************************************************************************)
get_table_columns(sch, t) == sch[t]

AddColumnMutFirst(cols, c) == <<c>> \o cols

\* ALTER TABLE t ADD COLUMN c TEXT NULL : the column goes last
AddColumn(cols, c) == Append(cols, c)

\* the k-th request is rejected when the server is told to (failAt), or when
\* the column exists already (Duplicate column name); nothing is rolled back
RECURSIVE ensure_extra_columns_as_null(_, _, _, _)
ensure_extra_columns_as_null(cols, extra_cols, k, failAt) ==
    IF extra_cols = <<>> THEN [cols |-> cols, err |-> "none", n |-> k - 1]
    ELSE IF k = failAt \/ Head(extra_cols) \in Range(cols)
         THEN [cols |-> cols, err |-> "alter", n |-> k]
         ELSE ensure_extra_columns_as_null(AddColumn(cols, Head(extra_cols)),
                                           Tail(extra_cols), k + 1, failAt)

\* a NULL written to the INT PRIMARY KEY column is stored as the implicit
\* default 0 under INSERT IGNORE
StoredKey(v) == IF v = NoneV THEN IntV(0) ELSE v

StoredRow(t, tcols, row) ==
    [c \in Range(tcols) |->
        IF c = PrimaryKey(t) THEN StoredKey(row[c]) ELSE row[c]]

InsertIgnoreMutReplace(t, tcols, rows, row) ==
    Bind(StoredRow(t, tcols, row), LAMBDA r :
        {x \in rows : x[PrimaryKey(t)] # r[PrimaryKey(t)]} \cup {r})

InsertIgnoreMutNoKey(t, tcols, rows, row) == rows \cup {StoredRow(t, tcols, row)}

\* INSERT IGNORE of one row: skipped when its primary key is stored already
InsertIgnore(t, tcols, rows, row) ==
    Bind(StoredRow(t, tcols, row), LAMBDA r :
        IF \E x \in rows : x[PrimaryKey(t)] = r[PrimaryKey(t)]
        THEN rows
        ELSE rows \cup {r})

RECURSIVE executemany(_, _, _, _)
executemany(t, tcols, rows, part) ==
    IF part = <<>> THEN rows
    ELSE executemany(t, tcols, InsertIgnore(t, tcols, rows, Head(part)), Tail(part))

\* existing rows read NULL in a column added by ALTER TABLE
ExtendRows(rows, tcols) ==
    {[c \in Range(tcols) |-> IF c \in DOMAIN r THEN r[c] ELSE NoneV] : r \in rows}

(***************************************************************************)
(* align_df_to_table                                                       *)
(***************************************************************************)
ExtraMutAll(df, table_cols) == df.cols

Extra(df, table_cols) == FilterOut(df.cols, Range(table_cols))

Missing(df, table_cols) == FilterOut(table_cols, Range(df.cols))

ExtendsSchemaMutIgnoresFlag(extra, add_extras_as_null) == extra # <<>>

ExtendsSchema(extra, add_extras_as_null) == extra # <<>> /\ add_extras_as_null

NullExtrasMutKeepsValues(df, extra) == df

NullExtras(df, extra) == SetColumns(df, extra, NoneV)

DropExtras(df, table_cols) == Select(df, Filter(df.cols, Range(table_cols)))

ReorderMutNoSelect(df, table_cols) == df

Reorder(df, table_cols) == Select(df, table_cols)

\* a statement sent to the server: SHOW COLUMNS, ALTER TABLE ADD COLUMN col def,
\* INSERT IGNORE of n rows under the column list cols, or COMMIT
Op(op, col, cols, n) ==
    [op |-> op, col |-> col, def |-> IF op = "ALTER" THEN "TEXT NULL" ELSE "",
     cols |-> cols, n |-> n, rows |-> <<>>]

\* cursor.executemany(sql, tuples of part): sql names cols, part are the rows
InsertOp(cols, part) == [Op("INSERT", "", cols, Len(part)) EXCEPT !.rows = part]

\* SHOW COLUMNS FROM t, with the column list it returned
ShowOp(cols) == Op("SHOW", "", cols, 0)

TableColsMutStale(table_cols, sch1, t, extend) == table_cols

\* table_cols at line 349: refreshed after the ALTER TABLE requests
TableCols(table_cols, sch1, t, extend) ==
    IF extend THEN get_table_columns(sch1, t) ELSE table_cols

AlterOps(extra, n) == [i \in 1..n |-> Op("ALTER", extra[i], <<>>, 0)]

\* the reshaping of lines 336-349, given the outcome alt of the ALTER requests
AlignRows(df, table_cols, table_cols1, extra, extend) ==
    Bind(IF extend THEN NullExtras(df, extra)
         ELSE IF extra # <<>> THEN DropExtras(df, table_cols)
         ELSE df, LAMBDA df1 :
    Bind(IF extend THEN Missing(df1, table_cols1) ELSE Missing(df, table_cols),
         LAMBDA missing :
        Reorder(SetColumns(df1, missing, NoneV), table_cols1)))

align_df_to_table(sch, t, df, add_extras_as_null, failAt) ==
    Bind(get_table_columns(sch, t), LAMBDA table_cols :
    Bind(Extra(df, table_cols), LAMBDA extra :
    Bind(ExtendsSchema(extra, add_extras_as_null), LAMBDA extend :
    Bind(IF extend
         THEN ensure_extra_columns_as_null(table_cols, extra, 1, failAt)
         ELSE [cols |-> table_cols, err |-> "none", n |-> 0], LAMBDA alt :
    Bind([sch EXCEPT ![t] = alt.cols], LAMBDA sch1 :
    Bind(TableCols(table_cols, sch1, t, extend), LAMBDA table_cols1 :
    Bind(IF alt.err = "none"
         THEN AlignRows(df, table_cols, table_cols1, extra, extend)
         ELSE KeyErrorDf, LAMBDA out :
        [df |-> out,
         cols |-> table_cols1,
         sch |-> sch1,
         err |-> IF alt.err # "none" THEN alt.err
                 ELSE IF out = KeyErrorDf THEN "KeyError" ELSE "none",
         ops |-> <<ShowOp(table_cols)>> \o AlterOps(extra, alt.n)
                 \o (IF extend /\ alt.err = "none" THEN <<ShowOp(table_cols1)>>
                                                  ELSE <<>>)])))))))

(***************************************************************************)
(* chunked / load_table                                                    *)
(***************************************************************************)
Min(a, b) == IF a < b THEN a ELSE b

NumChunks(n, size) == (n + size - 1) \div size

chunkedMutOneMore(rows, size) ==
    [j \in 1..NumChunks(Len(rows), size) |->
        SubSeq(rows, (j - 1) * size + 1, Min(j * size + 1, Len(rows)))]

\* df.iloc[i:i+size] for i in range(0, len(df), size)
chunked(rows, size) ==
    [j \in 1..NumChunks(Len(rows), size) |->
        SubSeq(rows, (j - 1) * size + 1, Min(j * size, Len(rows)))]

\* the batches are sent in order; the failAt-th executemany is rejected, and
\* so is a batch whose tuples do not fit the statement's column list
RECURSIVE InsertParts(_, _, _, _, _, _)
InsertParts(t, tcols, rows, parts, k, failAt) ==
    IF parts = <<>> THEN [rows |-> rows, err |-> "none", n |-> k - 1]
    ELSE IF k = failAt THEN [rows |-> rows, err |-> "insert", n |-> k]
         ELSE InsertParts(t, tcols, executemany(t, tcols, rows, Head(parts)),
                          Tail(parts), k + 1, failAt)

InsertOps(cols, parts, n) == [i \in 1..n |-> InsertOp(cols, parts[i])]

\* the inserts of lines 363-366, given the aligner's result al, in batches of
\* size rows
InsertAll(t, al, rows1, size, insertFail) ==
    Bind(chunked(al.df.rows, size), LAMBDA parts :
    Bind(IF al.err # "none" THEN [rows |-> rows1, err |-> al.err, n |-> 0]
         ELSE IF al.df.cols # al.cols /\ parts # <<>>
              THEN [rows |-> rows1, err |-> "insert", n |-> 1]
         ELSE InsertParts(t, al.cols, rows1, parts, 1, insertFail), LAMBDA ins :
        [df |-> al.df, cols |-> al.cols, sch |-> al.sch, before |-> rows1,
         rows |-> ins.rows, err |-> ins.err,
         ops |-> al.ops \o (IF al.err = "none"
                            THEN InsertOps(al.cols, parts, ins.n) ELSE <<>>)]))

\* load_table with the batch size as a parameter, so that a dataset of a few
\* rows can span several batches
load_table_sized(sch, rows, t, df, add_extras_as_null, size, alterFail, insertFail) ==
    Bind(align_df_to_table(sch, t, to_bool_int(normalise_nulls(df), BOOL_COLS[t]),
                           add_extras_as_null, alterFail), LAMBDA al :
        InsertAll(t, al, ExtendRows(rows, al.sch[t]), size, insertFail))

\* load_table as written: chunked(df, 5000)
load_table(sch, rows, t, df, add_extras_as_null, alterFail, insertFail) ==
    load_table_sized(sch, rows, t, df, add_extras_as_null, BatchSize, alterFail,
                     insertFail)

(***************************************************************************)
(* Bounded inputs: the datasets a load is given.                           *)
(***************************************************************************)
DfColumnLists(t) ==
    IF t = "customers"
    THEN {<<"customer_id", "repeat_customer_flag">>,
          <<"customer_id", "region", "category_name">>,
          <<"notes", "repeat_customer_flag", "customer_id", "category_name">>,
          <<"region", "repeat_customer_flag">>}
    ELSE {<<"city", "category_name", "warehouse_id">>}

Variants == 1..2

CellOf(t, c, k, v) ==
    IF c = PrimaryKey(t) THEN IntV(k)
    ELSE IF c \in Range(BOOL_COLS[t])
         THEN (IF v = 1 THEN TextV(<<"Y", "e", "s">>) ELSE NaNV)
         ELSE (IF v = 1 THEN TextV(<<"a">>) ELSE TextV(<<>>))

\* row i carries the key ks[i]; the other cells alternate between the two
\* variants from row to row, starting with v
MakeDf(t, cols, ks, v) ==
    [cols |-> cols,
     rows |-> [i \in DOMAIN ks |->
                 [c \in Range(cols) |-> CellOf(t, c, ks[i], 1 + ((v + i) % 2))]]]

Datasets ==
    [t \in Tables |->
        UNION {UNION {{MakeDf(t, cols, ks, v) : ks \in [1..n -> 1..MaxPk],
                                                v \in Variants}
                      : cols \in DfColumnLists(t)}
               : n \in 0..MaxRows}]

(***************************************************************************)
(* State                                                                   *)
(***************************************************************************)
VARIABLES schema, stored, call, nloads, main, gen

vars == <<schema, stored, call, nloads, main, gen>>

\* a line printed by main: [SKIP] table, [LOAD] table or [OK] table (rows rows)
Notice(kind, t, rows) == [kind |-> kind, table |-> t, rows |-> rows]

NoCall ==
    [table |-> "", df |-> [cols |-> <<>>, rows |-> <<>>], flag |-> TRUE,
     fault |-> "none", out |-> [cols |-> <<>>, rows |-> <<>>], cols |-> <<>>,
     err |-> "none", ops |-> <<>>, schemaBefore |-> <<>>, storedBefore |-> {},
     committed |-> FALSE, again |-> FALSE, notices |-> <<>>]

\* main before its loop: the position in LOAD_ORDER, the tables whose file is
\* absent, the batch size, the statements sent so far (each with its table
\* and whether the server rejected it) and the lines printed so far; argv is
\* the way --add-extras-as-null appears on the command line and flag is
\* args.add_extras_as_null
NoMain ==
    [status |-> "off", pc |-> 1, absent |-> {}, size |-> BatchSize,
     trace |-> <<>>, notices |-> <<>>, argv |-> "none", flag |-> FALSE]

\* generate_dataset not run
NoGen == [phase |-> "off"]

Init ==
    /\ schema = [t \in Tables |-> DDL[t]]
    /\ stored = [t \in Tables |-> {}]
    /\ call = NoCall
    /\ nloads = 0
    /\ main = NoMain
    /\ gen = NoGen

\* load_table(cur, name, df, add_extras_as_null); conn.commit().  alterFail and
\* insertFail pick the request the server rejects (0: none).  An exception
\* ends the run before the commit: the rows of the open transaction are lost,
\* the columns already added stay.  call records the last call: its inputs,
\* the aligned rows (out, cols), the statements sent (ops), the table's column
\* list before it (schemaBefore), the rows stored before it read under the
\* column list after it (storedBefore), and whether it repeats the previous,
\* successful call (again).
\* autocommit=False and no handler: the exception ends the process before
\* conn.commit(), and the server discards the rows of the open transaction
RollbackMutAutocommit(before, rows) == rows

Rollback(before, rows) == before

\* ALTER TABLE is committed by the server on its own; nothing undoes it
ImplicitCommitMutUndone(before, after) == before

ImplicitCommit(before, after) == after

NoticeRowsMutAdded(df, before, after) == Cardinality(after) - Cardinality(before)

\* print(f"[OK] {name} ({len(df)} rows)")
NoticeRows(df, before, after) == Len(df.rows)

LoadTableSized(t, df, flag, size, alterFail, insertFail) ==
    \E res \in {load_table_sized(schema, stored[t], t, df, flag, size, alterFail,
                                 insertFail)} :
    LET ok == res.err = "none"
    IN  /\ schema' = IF ok THEN res.sch ELSE ImplicitCommit(schema, res.sch)
        /\ stored' = [stored EXCEPT ![t] = IF ok THEN res.rows
                                          ELSE Rollback(res.before, res.rows)]
        /\ call' = [table |-> t, df |-> df, flag |-> flag,
                    fault |-> IF alterFail > 0 THEN "alter"
                              ELSE IF insertFail > 0 THEN "insert" ELSE "none",
                    out |-> res.df, cols |-> res.cols, err |-> res.err,
                    ops |-> res.ops \o (IF ok THEN <<Op("COMMIT", "", <<>>, 0)>>
                                              ELSE <<>>),
                    schemaBefore |-> schema[t], storedBefore |-> res.before,
                    committed |-> ok,
                    again |-> /\ call.table = t /\ call.df = df /\ call.flag = flag
                              /\ call.err = "none",
                    notices |->
                        <<Notice("LOAD", t, 0)>>
                        \o (IF ok
                            THEN <<Notice("OK", t, NoticeRows(df, res.before, res.rows))>>
                            ELSE <<>>)]
        /\ nloads' = nloads + 1

LoadTable(t, df, flag, alterFail, insertFail) ==
    LoadTableSized(t, df, flag, BatchSize, alterFail, insertFail)

\* the requests of a call that the server can reject
AlterRequests(t, df, flag) ==
    LET extra == Extra(df, schema[t])
    IN  IF ExtendsSchema(extra, flag) THEN 1..Len(extra) ELSE {}

InsertRequests(df) == 1..NumChunks(Len(df.rows), BatchSize)

\* a load that the server lets through, committed by main
Load ==
    /\ nloads < MaxLoads
    /\ \E t \in Tables, flag \in BOOLEAN :
          \E df \in Datasets[t] : LoadTable(t, df, flag, 0, 0)
    /\ UNCHANGED <<main, gen>>

\* a load whose k-th ALTER TABLE is rejected
LoadAlterRejected ==
    /\ nloads < MaxLoads
    /\ \E t \in Tables, flag \in BOOLEAN :
          \E df \in Datasets[t] :
              \E k \in AlterRequests(t, df, flag) : LoadTable(t, df, flag, k, 0)
    /\ UNCHANGED <<main, gen>>

\* a load whose k-th executemany is rejected
LoadInsertRejected ==
    /\ nloads < MaxLoads
    /\ \E t \in Tables, flag \in BOOLEAN :
          \E df \in Datasets[t] :
              \E k \in InsertRequests(df) : LoadTable(t, df, flag, 0, k)
    /\ UNCHANGED <<main, gen>>

Next == Load \/ LoadAlterRejected \/ LoadInsertRejected

Spec == Init /\ [][Next]_vars

(***************************************************************************)
(* main: the loop over LOAD_ORDER, from the state after the DDL has been   *)
(* run against a fresh database.  One action per iteration: a skip, a load *)
(* with its commit, or a load that the server rejects.  The batch size is  *)
(* BatchSize, or SmallBatch so that a file of MaxRows rows spans batches.  *)
(***************************************************************************)
\* the ways the option can appear on the command line: not at all, as the
\* bare option (possibly more than once or abbreviated), or in a form
\* argparse rejects (--add-extras-as-null=false, --no-add-extras-as-null)
Argv == {"absent", "given", "invalid"}

\* add_argument("--add-extras-as-null", action="store_true", default=True)
AddExtrasDefault == TRUE

parse_argsMutDefaultOff(argv) ==
    [ok |-> argv # "invalid", add_extras_as_null |-> argv = "given"]

\* ap.parse_args(): store_true stores True when the option is given and
\* leaves the default otherwise; an invalid form ends the program (exit 2)
parse_args(argv) ==
    [ok |-> argv # "invalid",
     add_extras_as_null |-> IF argv = "given" THEN TRUE ELSE AddExtrasDefault]

\* args.add_extras_as_null of a run with no such option on the command line
MainFlag == parse_args("absent").add_extras_as_null

\* the file of a table other than Tables: keys 1..MaxRows under the primary
\* key column, 1 under the table's second column
MainDf(t) ==
    [cols |-> <<DDL[t][1], DDL[t][2]>>,
     rows |-> [i \in 1..MaxRows |->
                 [c \in {DDL[t][1], DDL[t][2]} |->
                     IF c = DDL[t][1] THEN IntV(i) ELSE IntV(1)]]]

\* the files main may find for a table
MainFiles ==
    [t \in DOMAIN DDL |->
        IF t \in Tables
        THEN {MakeDf(t, cols, ks, 1) : cols \in DfColumnLists(t),
                                       ks \in [1..MaxRows -> 1..MaxPk]}
             \cup {MakeDf(t, cols, <<>>, 1) : cols \in DfColumnLists(t)}
        ELSE {MainDf(t)}]

InitMain ==
    /\ schema = DDL
    /\ stored = [t \in DOMAIN DDL |-> {}]
    /\ call = NoCall
    /\ nloads = 0
    /\ \E size \in {SmallBatch, BatchSize}, argv \in Argv :
       \E args \in {parse_args(argv)} :
          main = [NoMain EXCEPT !.status = IF args.ok THEN "running" ELSE "usage",
                                !.size = size, !.argv = argv,
                                !.flag = args.add_extras_as_null]
    /\ gen = NoGen

\* the statements of one load_table call (and its commit), as main's trace
\* keeps them: the rejected statement, if any, is the last one
Tagged(t, ops, err) ==
    [i \in DOMAIN ops |->
        [table |-> t, req |-> ops[i],
         rejected |-> err \in {"alter", "insert"} /\ i = Len(ops)]]

SkipMutBreaks(m, t) ==
    [m EXCEPT !.pc = Len(LOAD_ORDER) + 1, !.absent = @ \cup {t},
              !.notices = Append(@, Notice("SKIP", t, 0))]

\* if not os.path.exists(path): print [SKIP]; continue
Skip(m, t) ==
    [m EXCEPT !.pc = @ + 1, !.absent = @ \cup {t},
              !.notices = Append(@, Notice("SKIP", t, 0))]

RaiseMutContinues(m) == [m EXCEPT !.pc = @ + 1]

\* an exception of load_table is not caught: main ends there
Raise(m) == [m EXCEPT !.status = "failed"]

Running == main.status = "running" /\ main.pc <= Len(LOAD_ORDER)

MainSkip ==
    /\ Running
    /\ Cardinality(main.absent) < MaxAbsent
    /\ main' = Skip(main, LOAD_ORDER[main.pc])
    /\ UNCHANGED <<schema, stored, call, nloads, gen>>

\* df = pd.read_csv(path); load_table(...); conn.commit(); print [OK]
MainIteration(t, df, alterFail, insertFail) ==
    /\ LoadTableSized(t, df, main.flag, main.size, alterFail, insertFail)
    /\ \E m \in {[main EXCEPT !.trace = @ \o Tagged(t, call'.ops, call'.err),
                                !.notices = @ \o call'.notices]} :
          main' = IF call'.err = "none" THEN [m EXCEPT !.pc = @ + 1] ELSE Raise(m)
    /\ UNCHANGED gen

MainLoad ==
    /\ Running
    /\ \E df \in MainFiles[LOAD_ORDER[main.pc]] :
          MainIteration(LOAD_ORDER[main.pc], df, 0, 0)

MainAlterRejected ==
    /\ Running
    /\ \E df \in MainFiles[LOAD_ORDER[main.pc]] :
          \E k \in AlterRequests(LOAD_ORDER[main.pc], df, main.flag) :
              MainIteration(LOAD_ORDER[main.pc], df, k, 0)

MainInsertRejected ==
    /\ Running
    /\ \E df \in MainFiles[LOAD_ORDER[main.pc]] :
          \E k \in 1..NumChunks(Len(df.rows), main.size) :
              MainIteration(LOAD_ORDER[main.pc], df, 0, k)

\* cur.close(); conn.close(); print Done
MainDone ==
    /\ main.status = "running"
    /\ main.pc = Len(LOAD_ORDER) + 1
    /\ main' = [main EXCEPT !.status = "done",
                             !.notices = Append(@, Notice("DONE", "", 0))]
    /\ UNCHANGED <<schema, stored, call, nloads, gen>>

NextMain ==
    MainSkip \/ MainLoad \/ MainAlterRejected \/ MainInsertRejected \/ MainDone

SpecMain == InitMain /\ [][NextMain]_vars

(***************************************************************************)
(* The boolean normaliser on its own: load_table's first two steps applied *)
(* to a customers dataset of one designated boolean column.                *)
(***************************************************************************)
BoolAlphabet == {"y", "Y", "t", "T", "1", "0", " "}

ShortTexts == UNION {[1..n -> BoolAlphabet] : n \in 0..MaxTextLen}

NamedTexts ==
    {<<"Y", "e", "s">>, <<"y", "e", "s">>, <<"Y", "E", "S">>, <<"y", "E", "s">>,
     <<"T", "R", "U", "E">>, <<"t", "r", "u", "e">>, <<"T", "r", "u", "e">>,
     <<"t", "r", "U", "e">>, <<"F", "a", "l", "s", "e">>, <<"n", "o">>,
     <<"m", "a", "y", "b", "e">>, <<"n", "a", "n">>, <<"N", "a", "N">>,
     <<"N", "o", "n", "e">>, <<"1", ".", "0">>, <<"y", "e", "s", " ">>,
     <<"o", "n">>}

RawCells ==
    {TextV(s) : s \in ShortTexts \cup NamedTexts}
    \cup {IntV(0), IntV(1), IntV(2), FloatV(0), FloatV(1), BoolV(TRUE),
          BoolV(FALSE), NoneV, NaNV, PosInfV, NegInfV}

BoolColumn(cells) ==
    [cols |-> <<"repeat_customer_flag">>,
     rows |-> [i \in DOMAIN cells |-> [c \in {"repeat_customer_flag"} |-> cells[i]]]]

ExampleCells ==
    <<TextV(<<"Y", "e", "s">>), TextV(<<"0">>), TextV(<<"T", "R", "U", "E">>),
      TextV(<<"m", "a", "y", "b", "e">>)>>

BoolDatasets == {BoolColumn(<<v>>) : v \in RawCells} \cup {BoolColumn(ExampleCells)}

InitBool ==
    /\ schema = [t \in Tables |-> DDL[t]]
    /\ stored = [t \in Tables |-> {}]
    /\ nloads = 0
    /\ main = NoMain
    /\ gen = NoGen
    /\ \E df \in BoolDatasets : call = [NoCall EXCEPT !.table = "customers", !.df = df]

\* df = normalise_nulls(df); df = to_bool_int(df, BOOL_COLS.get(table, []))
NormaliseBool ==
    /\ nloads = 0
    /\ nloads' = 1
    /\ call' = [call EXCEPT !.out = to_bool_int(normalise_nulls(call.df),
                                                BOOL_COLS[call.table])]
    /\ UNCHANGED <<schema, stored, main, gen>>

NextBool == NormaliseBool

SpecBool == InitBool /\ [][NextBool]_vars

(***************************************************************************)
(* normalise_nulls on its own, applied to datasets of every kind of cell:   *)
(* the null spellings, their other casings, blanks, numbers and booleans.   *)
(***************************************************************************)
NullAlphabet == {"n", "a", "N", "A", " "}

NullShortTexts == UNION {[1..n -> NullAlphabet] : n \in 0..(MaxTextLen + 1)}

NullNamedTexts ==
    {<<"N", "o", "n", "e">>, <<"n", "o", "n", "e">>, <<"N", "O", "N", "E">>,
     <<"N", "U", "L", "L">>, <<"n", "u", "l", "l">>, <<"i", "n", "f">>,
     <<"0">>, <<"N", "a", "N", " ">>}

NullRawCells ==
    {TextV(s) : s \in NullShortTexts \cup NullNamedTexts}
    \cup {IntV(0), IntV(1), FloatV(0), FloatV(1), BoolV(TRUE), BoolV(FALSE),
          NoneV, NaNV, PosInfV, NegInfV}

\* a dataset of the two columns region, notes; row i holds cells[i] in both
\* when both is set, else cells[i] in region and the text a in notes
NullFrame(cells, both) ==
    [cols |-> <<"region", "notes">>,
     rows |-> [i \in DOMAIN cells |->
                 [c \in {"region", "notes"} |->
                     IF both \/ c = "region" THEN cells[i] ELSE TextV(<<"a">>)]]]

NullExampleCells ==
    <<NaNV, TextV(<<>>), TextV(<<"N", "U", "L", "L">>), TextV(<<" ">>),
      NegInfV, TextV(<<"N", "A", "N">>), IntV(0)>>

NullDatasets ==
    {NullFrame(<<v>>, b) : v \in NullRawCells, b \in BOOLEAN}
    \cup {NullFrame(NullExampleCells, TRUE), NullFrame(<<>>, TRUE)}

InitNull ==
    /\ schema = [t \in Tables |-> DDL[t]]
    /\ stored = [t \in Tables |-> {}]
    /\ nloads = 0
    /\ main = NoMain
    /\ gen = NoGen
    /\ \E df \in NullDatasets : call = [NoCall EXCEPT !.table = "customers", !.df = df]

\* df = normalise_nulls(df)
NormaliseNulls ==
    /\ nloads = 0
    /\ nloads' = 1
    /\ call' = [call EXCEPT !.out = normalise_nulls(call.df)]
    /\ UNCHANGED <<schema, stored, main, gen>>

NextNull == NormaliseNulls

SpecNull == InitNull /\ [][NextNull]_vars

(***************************************************************************)
(* pd.read_csv followed by load_table, on two customers files side by      *)
(* side.  A file is given by the raw texts of its repeat_customer_flag      *)
(* column; its customer_id column holds the row numbers.  read_csv types a  *)
(* column as a whole: int64 when every cell is an integer, float64 when     *)
(* every cell is a number or missing, bool when every cell is a boolean     *)
(* word, object otherwise, with nan for a missing cell.                     *)
(***************************************************************************)
\* some of the texts read_csv takes for a missing value
CsvNaTexts == {<<>>, <<"n", "a", "n">>, <<"N", "a", "N">>, <<"N", "A">>}

IsIntText(s) == Len(s) = 1 /\ s[1] \in Range(Digits)

IsFloatText(s) == Len(s) = 3 /\ s[1] \in Range(Digits) /\ s[2] = "." /\ s[3] = "0"

DigitOf(c) == CHOOSE d \in 0..9 : Digits[d + 1] = c

CsvTrueTexts == {<<"T", "r", "u", "e">>, <<"T", "R", "U", "E">>, <<"t", "r", "u", "e">>}

CsvFalseTexts ==
    {<<"F", "a", "l", "s", "e">>, <<"F", "A", "L", "S", "E">>,
     <<"f", "a", "l", "s", "e">>}

\* the dtype read_csv infers for a column of raw texts
CsvDtype(texts) ==
    Bind({texts[i] : i \in DOMAIN texts} \ CsvNaTexts, LAMBDA present :
        IF \A s \in present : IsIntText(s)
        THEN (IF \A i \in DOMAIN texts : texts[i] \notin CsvNaTexts
              THEN "int64" ELSE "float64")
        ELSE IF \A s \in present : IsIntText(s) \/ IsFloatText(s) THEN "float64"
        ELSE IF present \subseteq CsvTrueTexts \cup CsvFalseTexts
             THEN (IF \A i \in DOMAIN texts : texts[i] \notin CsvNaTexts
                   THEN "bool" ELSE "object of bool")
        ELSE "object")

CsvCell(dtype, s) ==
    IF s \in CsvNaTexts THEN NaNV
    ELSE IF dtype = "int64" THEN IntV(DigitOf(s[1]))
    ELSE IF dtype = "float64" THEN FloatV(DigitOf(s[1]))
    ELSE IF dtype \in {"bool", "object of bool"} THEN BoolV(s \in CsvTrueTexts)
    ELSE TextV(s)

read_csv_columnMutCellwise(texts) ==
    [i \in DOMAIN texts |-> CsvCell(CsvDtype(<<texts[i]>>), texts[i])]

read_csv_column(texts) ==
    Bind(CsvDtype(texts), LAMBDA dtype :
        [i \in DOMAIN texts |-> CsvCell(dtype, texts[i])])

\* df = pd.read_csv(path) of the file whose flag column holds flags
read_csv(flags) ==
    Bind(read_csv_column(flags), LAMBDA col :
        [cols |-> <<"customer_id", "repeat_customer_flag">>,
         rows |-> [i \in DOMAIN flags |->
                     [c \in {"customer_id", "repeat_customer_flag"} |->
                         IF c = "customer_id" THEN IntV(i) ELSE col[i]]]])

\* the flag stored for each row of the file, loaded into an empty customers
\* table
StoredFlags(flags) ==
    Bind(load_table([t \in Tables |-> DDL[t]], {}, "customers", read_csv(flags),
                    MainFlag, 0, 0).rows, LAMBDA rows :
        [i \in DOMAIN flags |->
            (CHOOSE r \in rows : r["customer_id"] = IntV(i))["repeat_customer_flag"]])

CsvTexts ==
    {<<"1">>, <<"0">>, <<>>, <<"1", ".", "0">>, <<"y", "e", "s">>,
     <<"T", "R", "U", "E">>, <<"F", "a", "l", "s", "e">>, <<"N", "A">>}

CsvFiles == UNION {[1..n -> CsvTexts] : n \in 0..MaxRows}

InitCsv ==
    /\ schema = [t \in Tables |-> DDL[t]]
    /\ stored = [t \in Tables |-> {}]
    /\ nloads = 0
    /\ main = NoMain
    /\ gen = NoGen
    /\ \E a \in CsvFiles, b \in CsvFiles :
          call = [table |-> "customers", files |-> <<a, b>>, flags |-> <<>>]

\* df = pd.read_csv(path); load_table(cur, name, df, ...); conn.commit(),
\* for each of the two files
LoadBoth ==
    /\ nloads = 0
    /\ nloads' = 2
    /\ call' = [call EXCEPT !.flags = <<StoredFlags(call.files[1]),
                                         StoredFlags(call.files[2])>>]
    /\ UNCHANGED <<schema, stored, main, gen>>

NextCsv == LoadBoth

SpecCsv == InitCsv /\ [][NextCsv]_vars

(***************************************************************************)
(* generate_dataset of generate_ag_dataset.py: the primary-key value given *)
(* to each row of each clean table, one action per loop iteration, then    *)
(* the load of one written file into its empty table.  gen.keys[t] is the  *)
(* primary-key column of table t in row order.                             *)
(***************************************************************************)
Ints(a, n) == [k \in 1..n |-> IntV(a + k - 1)]

\* f"R-{rid:06d}", for rid below 10
ReviewId(rid) == TextV(<<"R", "-", "0", "0", "0", "0", "0", Digits[rid + 1]>>)

\* the reference tables of lines 64-86
StaticKeys ==
    [t \in DOMAIN DDL |->
        IF t = "brands" THEN Ints(1, 1)
        ELSE IF t \in {"platforms", "marketplace_accounts", "platform_fees"}
             THEN Ints(1, 3)
        ELSE IF t = "categories" THEN Ints(1, 5)
        ELSE <<>>]

\* the two rows appended per listing: both dictionaries of the list literal
\* are built before += extends listing_prices, so both read the same length
PriceIds(len) == <<IntV(len + 1), IntV(len + 1)>>

Add(keys, t, ks) == [keys EXCEPT ![t] = @ \o ks]

InitGen ==
    /\ schema = DDL
    /\ stored = [t \in DOMAIN DDL |-> {}]
    /\ call = NoCall
    /\ nloads = 0
    /\ main = NoMain
    /\ \E np \in 1..MaxGen, nc \in 1..MaxGen, no \in 1..MaxGen, nr \in 1..MaxGen :
          gen = [phase |-> "products",
                 n_products |-> np, n_customers |-> nc, n_orders |-> no,
                 n_reviews |-> nr, i |-> 1, plat |-> 1,
                 vid |-> 1, lid |-> 1, oid |-> 1, oi |-> 1, pay |-> 1, ship |-> 1,
                 ret |-> 1, ri |-> 1, keys |-> StaticKeys,
                 loaded |-> [table |-> "", file |-> 0, stored |-> 0]]

\* the end of a loop of n iterations: go on to the phase next
Step(g, n, next) ==
    IF g.i = n THEN [g EXCEPT !.i = 1, !.phase = next] ELSE [g EXCEPT !.i = @ + 1]

\* for pid in range(1, n_products+1)
GenProduct ==
    /\ gen.phase = "products"
    /\ gen' = Step([gen EXCEPT !.keys = Add(@, "products", Ints(gen.i, 1))],
                   gen.n_products, "variants")
    /\ UNCHANGED <<schema, stored, call, nloads, main>>

\* the variants of one product: random.sample(size_codes, choice([2,3,3,4]))
GenVariants ==
    /\ gen.phase = "variants"
    /\ \E k \in {2, 3, 4} :
          gen' = Step([gen EXCEPT !.keys = Add(@, "product_variants", Ints(gen.vid, k)),
                                  !.vid = @ + k],
                      gen.n_products, "listings")
    /\ UNCHANGED <<schema, stored, call, nloads, main>>

\* one product on one platform: a listing, its two prices, its inventory
GenListing ==
    /\ gen.phase = "listings"
    /\ \E g \in {[gen EXCEPT
                    !.keys = Add(Add(Add(@, "product_listings", Ints(gen.lid, 1)),
                                     "listing_prices",
                                     PriceIds(Len(gen.keys["listing_prices"]))),
                                 "channel_inventory",
                                 Ints(Len(gen.keys["channel_inventory"]) + 1, 1)),
                    !.lid = @ + 1]} :
          gen' = IF gen.plat = Len(StaticKeys["platforms"])
                 THEN Step([g EXCEPT !.plat = 1], gen.n_products, "customers")
                 ELSE [g EXCEPT !.plat = @ + 1]
    /\ UNCHANGED <<schema, stored, call, nloads, main>>

\* for cid in range(1, n_customers+1)
GenCustomer ==
    /\ gen.phase = "customers"
    /\ gen' = Step([gen EXCEPT !.keys = Add(@, "customers", Ints(gen.i, 1))],
                   gen.n_customers, "orders")
    /\ UNCHANGED <<schema, stored, call, nloads, main>>

\* one order of n_lines lines, shipped or not, returned or not
GenOrder ==
    /\ gen.phase = "orders"
    /\ \E n_lines \in 1..3, shipped \in BOOLEAN, returned \in BOOLEAN :
          /\ returned => shipped
          /\ \E k1 \in {Add(Add(Add(Add(gen.keys,
                              "order_items", Ints(gen.oi, n_lines)),
                              "orders", Ints(gen.oid, 1)),
                              "order_fees", Ints(Len(gen.keys["order_fees"]) + 1, 1)),
                              "payments", Ints(gen.pay, 1))} :
             \E k2 \in {IF shipped THEN Add(k1, "shipments", Ints(gen.ship, 1))
                                   ELSE k1} :
             \E k3 \in {IF returned
                         THEN Add(Add(k2, "returns", Ints(gen.ret, 1)),
                                  "return_items", Ints(gen.ri, 1))
                         ELSE k2} :
                gen' = Step([gen EXCEPT
                               !.keys = k3, !.oi = @ + n_lines, !.oid = @ + 1,
                               !.pay = @ + 1,
                               !.ship = IF shipped THEN @ + 1 ELSE @,
                               !.ret = IF returned THEN @ + 1 ELSE @,
                               !.ri = IF returned THEN @ + 1 ELSE @],
                            gen.n_orders, "reviews")
    /\ UNCHANGED <<schema, stored, call, nloads, main>>

\* for rid in range(1, n_reviews+1)
GenReview ==
    /\ gen.phase = "reviews"
    /\ gen' = Step([gen EXCEPT !.keys = Add(@, "reviews", <<ReviewId(gen.i)>>)],
                   gen.n_reviews, "tail")
    /\ UNCHANGED <<schema, stored, call, nloads, main>>

\* warehouses, inventory (one row per variant, inventory_id = i+1), write_csv
GenTail ==
    /\ gen.phase = "tail"
    /\ gen' = [gen EXCEPT
                  !.keys = Add(Add(@, "warehouses", Ints(1, 2)),
                               "inventory", Ints(1, Len(gen.keys["product_variants"]))),
                  !.phase = "written"]
    /\ UNCHANGED <<schema, stored, call, nloads, main>>

\* the clean file of table t, reduced to its primary-key column
KeyFile(t, ks) ==
    [cols |-> <<PrimaryKey(t)>>,
     rows |-> [i \in DOMAIN ks |-> [c \in {PrimaryKey(t)} |-> ks[i]]]]

\* data_loader's load of one written file into its empty table
GenLoadFile ==
    /\ gen.phase = "written"
    /\ \E t \in DOMAIN DDL :
          /\ gen.keys[t] # <<>>
          /\ LoadTable(t, KeyFile(t, gen.keys[t]), MainFlag, 0, 0)
          /\ gen' = [gen EXCEPT !.phase = "loaded",
                                 !.loaded = [table |-> t, file |-> Len(gen.keys[t]),
                                             stored |-> Cardinality(stored'[t])]]
    /\ UNCHANGED main

NextGen ==
    \/ GenProduct \/ GenVariants \/ GenListing \/ GenCustomer \/ GenOrder
    \/ GenReview \/ GenTail \/ GenLoadFile

SpecGen == InitGen /\ [][NextGen]_vars

(***************************************************************************)
(* Properties                                                              *)
(***************************************************************************)
Called == call.table \in Tables

\* align_df_to_table returned (no add-column request was rejected)
Aligned == Called /\ call.err \in {"none", "insert"}

AlterCols(ops) ==
    LET alters == SelectSeq(ops, LAMBDA o : o.op = "ALTER")
    IN  [i \in DOMAIN alters |-> alters[i].col]

ExtrasOf(df, cols) == SelectSeq(df.cols, LAMBDA c : c \notin Range(cols))

\* C1: whenever align_df_to_table returns, for either value of the flag, the
\* rows it returns have exactly the columns of the table's final column list,
\* in that order, and there are as many rows as were passed in.
C1_OutputMatchesTarget ==
    Called /\ call.fault # "alter" =>
        /\ call.err \in {"none", "insert"}
        /\ call.out.cols = schema[call.table]
        /\ call.cols = schema[call.table]
        /\ Len(call.out.rows) = Len(call.df.rows)
        /\ \A i \in DOMAIN call.out.rows :
              DOMAIN call.out.rows[i] = Range(schema[call.table])

C1_Witness ==
    /\ Called /\ call.err = "none" /\ call.flag
    /\ Len(call.out.rows) = 2
    /\ Len(schema[call.table]) = Len(call.schemaBefore) + 2
    /\ call.df.cols[1] \notin Range(call.schemaBefore)
    /\ call.out.cols = schema[call.table]

\* C2: with the flag set and extra columns in the dataset, one add-column
\* request (TEXT NULL) is issued per extra column, in the dataset's column order; the
\* table's column list becomes the previous list followed by those columns;
\* and every output row has null in each of them.
C2_ExtrasAddedAndNulled ==
    Called /\ call.flag /\ call.fault # "alter"
           /\ ExtrasOf(call.df, call.schemaBefore) # <<>> =>
        LET extra == ExtrasOf(call.df, call.schemaBefore)
        IN  /\ AlterCols(call.ops) = extra
            /\ \A i \in DOMAIN call.ops :
                  call.ops[i].op = "ALTER" => call.ops[i].def = "TEXT NULL"
            /\ schema[call.table] = call.schemaBefore \o extra
            /\ call.out.cols = call.schemaBefore \o extra
            /\ \A i \in DOMAIN call.out.rows : \A c \in Range(extra) :
                  call.out.rows[i][c] = NoneV

\* dataset {customer_id, region, category_name} against the customers table
C2_Witness ==
    /\ Called /\ call.flag /\ call.err = "none"
    /\ call.df.cols = <<"customer_id", "region", "category_name">>
    /\ call.schemaBefore = DDL["customers"]
    /\ schema["customers"] = Append(DDL["customers"], "category_name")
    /\ Len(call.df.rows) = 2
    /\ call.df.rows[1]["category_name"] = TextV(<<"a">>)
    /\ call.out.rows[1]["category_name"] = NoneV

\* C3: every target column that the dataset lacks is null in every output row
\* of load_table's normalise-then-align pipeline, a designated boolean column
\* included.
C3_MissingColumnsNull ==
    Aligned =>
        \A c \in Range(schema[call.table]) \ Range(call.df.cols) :
            \A i \in DOMAIN call.out.rows : call.out.rows[i][c] = NoneV

C3_Witness ==
    /\ Aligned /\ call.table = "customers"
    /\ call.df.cols = <<"customer_id", "region", "category_name">>
    /\ Len(call.out.rows) = 2
    /\ call.out.rows[1]["repeat_customer_flag"] = NoneV
    /\ call.out.rows[2]["first_name"] = NoneV

KeysOf(t, rows) == {r[PrimaryKey(t)] : r \in rows}

DfKeys(t, df) == {df.rows[i][PrimaryKey(t)] : i \in DOMAIN df.rows}

\* C4: in every step, the stored rows of every table keep pairwise distinct
\* primary keys; every row stored before the step is still stored with the
\* same values in the columns it had; a row is added only under a primary key
\* that was not stored; and a load whose rows all carry stored primary keys
\* adds no row and raises no error.
C4_IgnoreOnConflict ==
    [][\A t \in Tables :
          /\ \A r1, r2 \in stored'[t] :
                r1[PrimaryKey(t)] = r2[PrimaryKey(t)] => r1 = r2
          /\ \A r \in stored[t] : \E x \in stored'[t] : \A c \in DOMAIN r : x[c] = r[c]
          /\ \A x \in stored'[t] :
                \/ \E r \in stored[t] : \A c \in DOMAIN r : x[c] = r[c]
                \/ x[PrimaryKey(t)] \notin KeysOf(t, stored[t])
          /\ ( /\ call'.table = t /\ call'.fault = "none"
               /\ PrimaryKey(t) \in Range(call'.df.cols)
               /\ DfKeys(t, call'.df) \subseteq KeysOf(t, stored[t]) )
             => /\ call'.err = "none"
                /\ Cardinality(stored'[t]) = Cardinality(stored[t])]_vars

\* a load of two rows under stored keys, with other values, that added nothing
C4_Witness ==
    /\ Called /\ call.err = "none"
    /\ PrimaryKey(call.table) \in Range(call.df.cols)
    /\ Len(call.df.rows) = 2
    /\ DfKeys(call.table, call.df) \subseteq KeysOf(call.table, call.storedBefore)
    /\ stored[call.table] = call.storedBefore
    /\ \E i \in DOMAIN call.out.rows : call.out.rows[i] \notin stored[call.table]

\* C5: a load that repeats the previous successful load (same table, dataset
\* and flag) succeeds and leaves the table's rows and column list as the
\* first load left them.
C5_LoadTwiceIsLoadOnce ==
    [][( /\ call'.table = call.table /\ call'.df = call.df
         /\ call'.flag = call.flag /\ call.err = "none" /\ Called
         /\ call'.fault = "none" )
       => /\ call'.err = "none"
          /\ stored' = stored
          /\ schema' = schema]_vars

\* the first of the two loads extended the schema and stored rows
C5_Witness ==
    /\ call.again /\ call.err = "none" /\ call.flag
    /\ ExtrasOf(call.df, DDL[call.table]) # <<>>
    /\ Len(call.df.rows) = 2
    /\ stored[call.table] # {}
    /\ stored[call.table] = call.storedBefore

\* C6: every stored row has null in every column that schema extension added
\* to its table.
C6_ExtensionColumnsStayNull ==
    \A t \in Tables : \A c \in Range(schema[t]) \ Range(DDL[t]) :
        \A r \in stored[t] : r[c] = NoneV

\* C7: a load of a dataset carrying a column that schema extension added
\* before issues no add-column request for that column, and raises no error
\* unless the server rejects a request.
C7_NoSecondAddColumn ==
    Called =>
        \A c \in (Range(call.schemaBefore) \ Range(DDL[call.table]))
                 \cap Range(call.df.cols) :
            /\ c \notin Range(AlterCols(call.ops))
            /\ call.fault = "none" => call.err = "none"

C7_Witness ==
    /\ Called /\ call.err = "none" /\ call.flag
    /\ "category_name" \in Range(call.schemaBefore)
    /\ "category_name" \in Range(call.df.cols)
    /\ "notes" \in Range(call.df.cols) \ Range(call.schemaBefore)
    /\ AlterCols(call.ops) = <<"notes">>

\* C8: in every step the column list of every table before the step is a
\* prefix of its column list after the step.
C8_SchemaGrowsByAppending ==
    [][\A t \in Tables : IsPrefix(schema[t], schema'[t])]_vars

C8_Witness ==
    /\ Called
    /\ schema["customers"] =
          DDL["customers"] \o <<"category_name", "notes">>
    /\ call.schemaBefore = Append(DDL["customers"], "category_name")

\* C9: with the flag unset no add-column request is issued and the table's
\* column list is unchanged; the dataset's extra columns are absent from the
\* output, whose columns are exactly the table's column list.
C9_FlagUnsetDropsExtras ==
    Called /\ ~call.flag =>
        /\ AlterCols(call.ops) = <<>>
        /\ schema[call.table] = call.schemaBefore
        /\ call.fault = "none" => call.err = "none"
        /\ call.out.cols = call.schemaBefore
        /\ \A i \in DOMAIN call.out.rows :
              /\ DOMAIN call.out.rows[i] = Range(call.schemaBefore)
              /\ \A c \in Range(ExtrasOf(call.df, call.schemaBefore)) :
                    c \notin DOMAIN call.out.rows[i]

C9_Witness ==
    /\ Called /\ ~call.flag /\ call.err = "none"
    /\ ExtrasOf(call.df, call.schemaBefore) = <<"notes", "category_name">>
    /\ Len(call.out.rows) = 2
    /\ call.df.rows[1]["notes"] = TextV(<<"a">>)
    /\ schema[call.table] = DDL[call.table]

UpperOf(c) ==
    CASE c = "t" -> "T" [] c = "r" -> "R" [] c = "u" -> "U" [] c = "e" -> "E"
      [] c = "y" -> "Y" [] c = "s" -> "S" [] OTHER -> c

\* every spelling of s in upper and lower case letters
CaseVariants(s) == {u \in [DOMAIN s -> {s[i] : i \in DOMAIN s} \cup {UpperOf(s[i]) : i \in DOMAIN s}] :
                       \A i \in DOMAIN s : u[i] \in {s[i], UpperOf(s[i])}}

TrueSpellings ==
    UNION {CaseVariants(s) : s \in {<<"t", "r", "u", "e">>, <<"1">>, <<"t">>,
                                    <<"y", "e", "s">>, <<"y">>}}

\* the text form of the cell is a spelling of true, 1, t, yes or y
ReadsTrue(v) ==
    \/ v.kind = "str" /\ v.text \in TrueSpellings
    \/ v.kind = "int" /\ v.n = 1
    \/ v.kind = "bool" /\ v.n = 1

Normalised == nloads = 1 /\ call.out.cols = <<"repeat_customer_flag">>

\* C10: after normalisation every cell of the designated boolean column is 1
\* or 0, never null: 1 exactly when the raw cell's text form is a spelling,
\* in any letter case, of true, 1, t, yes or y, and 0 otherwise, null-like
\* cells included.
C10_BooleanNormalisation ==
    Normalised =>
        \A i \in DOMAIN call.df.rows :
            LET raw == call.df.rows[i]["repeat_customer_flag"]
                res == call.out.rows[i]["repeat_customer_flag"]
            IN  /\ res \in {IntV(0), IntV(1)}
                /\ res = IntV(1) <=> ReadsTrue(raw)

\* [Yes, 0, TRUE, maybe] gives [1, 0, 1, 0]
C10_Witness ==
    /\ Normalised
    /\ call.df = BoolColumn(ExampleCells)
    /\ call.out = BoolColumn(<<IntV(1), IntV(0), IntV(1), IntV(0)>>)

\* the raw forms the claim lists as null-like
NullLike(v) ==
    v \in {NaNV, PosInfV, NegInfV, TextV(<<"n", "a", "n">>), TextV(<<"N", "a", "N">>),
           TextV(<<"N", "o", "n", "e">>), TextV(<<>>)}

NullsNormalised == nloads = 1 /\ call.df.cols = <<"region", "notes">>

\* C11: normalise_nulls maps nan, +inf, -inf and the exact strings nan, NaN,
\* None and the empty string to null and returns every other value unchanged
\* (NULL, none, NAN and a single space pass through); it changes neither the
\* number of rows nor the column list.
C11_NullNormalisation ==
    NullsNormalised =>
        /\ call.out.cols = call.df.cols
        /\ Len(call.out.rows) = Len(call.df.rows)
        /\ \A i \in DOMAIN call.df.rows : \A c \in Range(call.df.cols) :
              call.out.rows[i][c] = IF NullLike(call.df.rows[i][c]) THEN NoneV
                                    ELSE call.df.rows[i][c]

C11_Witness ==
    /\ NullsNormalised
    /\ call.df = NullFrame(NullExampleCells, TRUE)
    /\ [i \in 1..7 |-> call.out.rows[i]["region"]]
         = <<NoneV, NoneV, TextV(<<"N", "U", "L", "L">>), TextV(<<" ">>), NoneV,
             TextV(<<"N", "A", "N">>), IntV(0)>>

(***************************************************************************)
(* Properties of main                                                      *)
(***************************************************************************)
Pos == [t \in Range(LOAD_ORDER) |-> CHOOSE i \in DOMAIN LOAD_ORDER : LOAD_ORDER[i] = t]

\* the columns of t, other than its primary key, that are the primary key
\* of a table
ForeignKeys ==
    [t \in DOMAIN DDL |->
        {c \in Range(Tail(DDL[t])) : \E p \in DOMAIN DDL : PrimaryKey(p) = c}]

ReferenceColumns ==
    {"brand_id", "platform_id", "category_id", "account_id", "product_id",
     "variant_id", "listing_id", "customer_id", "order_id", "order_item_id",
     "return_id", "warehouse_id"}

Parent == [c \in ReferenceColumns |-> CHOOSE p \in DOMAIN DDL : PrimaryKey(p) = c]

\* the reference columns of the schema are the listed ones, and LOAD_ORDER
\* names every table
ReferencesAsListed ==
    /\ UNION {ForeignKeys[t] : t \in DOMAIN DDL} = ReferenceColumns
    /\ Range(LOAD_ORDER) = DOMAIN DDL

\* the tables main has reached, in the order of its [SKIP] and [LOAD] lines
Visited == SelectSeq(main.notices, LAMBDA x : x.kind \in {"SKIP", "LOAD"})

IsOp(i, t, op) == main.trace[i].table = t /\ main.trace[i].req.op = op

InsertsOf(t) == {i \in DOMAIN main.trace : IsOp(i, t, "INSERT")}

FirstOf(is) == {i \in is : \A j \in is : i <= j}

\* the positions of the first INSERT of each table
FirstInserts == UNION {FirstOf(InsertsOf(t)) : t \in DOMAIN DDL}

\* C12: main visits the tables in the order of LOAD_ORDER, and for every
\* reference column of a table (brand_id ... warehouse_id) the referenced
\* table has been visited, and committed if its file is there, before the
\* first insert of the referencing table.
C12_ParentsBeforeChildren ==
    /\ ReferencesAsListed
    /\ \A i \in DOMAIN Visited : Visited[i].table = LOAD_ORDER[i]
    /\ \A i \in FirstInserts : \A c \in ForeignKeys[main.trace[i].table] :
          /\ Pos[Parent[c]] < Pos[main.trace[i].table]
          /\ \/ Parent[c] \in main.absent
             \/ \E j \in 1..(i - 1) : IsOp(j, Parent[c], "COMMIT")
          /\ \A j \in i..Len(main.trace) : main.trace[j].table # Parent[c]

C12_Witness ==
    /\ main.status = "done"
    /\ main.absent = {}
    /\ main.size = SmallBatch
    /\ \E i \in FirstInserts : \E j \in 1..(i - 1) :
          /\ main.trace[i].table = "inventory"
          /\ IsOp(j, "warehouses", "COMMIT")
          /\ main.trace[j - 1].req.op = "INSERT"

NoticesOf(t) == SelectSeq(main.notices, LAMBDA x : x.table = t)

\* C13: a table whose file is absent is skipped with a notice: no SHOW
\* COLUMNS, no ALTER TABLE, no INSERT and no COMMIT is sent for it, the skip
\* is not an error, and the tables after it are still processed.
C13_AbsentFileSkipped ==
    /\ \A t \in main.absent :
          /\ \A i \in DOMAIN main.trace : main.trace[i].table # t
          /\ NoticesOf(t) = <<Notice("SKIP", t, 0)>>
    /\ main.status = "failed" =>
          main.trace # <<>> /\ main.trace[Len(main.trace)].rejected
    /\ main.status = "done" =>
          \A t \in DOMAIN DDL \ main.absent :
              \E i \in DOMAIN main.trace : IsOp(i, t, "COMMIT")

C13_Witness ==
    /\ main.status = "done"
    /\ main.absent = {"customers"}
    /\ NoticesOf("customers") = <<Notice("SKIP", "customers", 0)>>
    /\ \E i \in DOMAIN main.trace : IsOp(i, "orders", "INSERT")
    /\ \E i \in DOMAIN main.trace : IsOp(i, "inventory", "COMMIT")

MainCalled == call.table \in DOMAIN DDL

\* the statements of the last load_table call, as main's trace holds them
LastBlock == SelectSeq(main.trace, LAMBDA e : e.table = call.table)

CommitsOf(t) == {i \in DOMAIN main.trace : IsOp(i, t, "COMMIT")}

\* C14: main commits exactly once per loaded table, after every batch
\* insert of the table has succeeded and before any statement of the next
\* table; the statements of two tables do not interleave.  If a batch of a
\* table is rejected no commit is sent for the table and none of the rows
\* inserted for it in this run is stored.
C14_CommitOncePerTable ==
    /\ \A i \in 1..(Len(main.trace) - 1) :
          /\ main.trace[i].table # main.trace[i + 1].table =>
                /\ Pos[main.trace[i].table] < Pos[main.trace[i + 1].table]
                /\ main.trace[i].req.op = "COMMIT"
          /\ main.trace[i].req.op = "COMMIT" =>
                main.trace[i].table # main.trace[i + 1].table
          /\ ~main.trace[i].rejected
    /\ \A t \in DOMAIN DDL :
          Cardinality(CommitsOf(t)) =
              IF Notice("LOAD", t, 0) \in Range(main.notices)
                 /\ ~(main.status = "failed" /\ call.table = t)
              THEN 1 ELSE 0
    /\ MainCalled /\ call.err = "none" =>
          /\ Cardinality(InsertsOf(call.table))
               = NumChunks(Len(call.df.rows), main.size)
          /\ \A i \in InsertsOf(call.table) : \A j \in CommitsOf(call.table) : i < j
    /\ MainCalled /\ call.err # "none" =>
          /\ main.status = "failed"
          /\ CommitsOf(call.table) = {}
          /\ stored[call.table] = {}

C14_Witness ==
    /\ main.status = "failed"
    /\ call.table = "warehouses"
    /\ LET b == LastBlock
       IN  /\ Len(b) = 5
           /\ [i \in 1..5 |-> b[i].req.op] = <<"SHOW", "ALTER", "SHOW", "INSERT", "INSERT">>
           /\ [i \in 1..5 |-> b[i].rejected] = <<FALSE, FALSE, FALSE, FALSE, TRUE>>
    /\ stored["warehouses"] = {}
    /\ Cardinality(stored["reviews"]) = MaxRows
    /\ Cardinality(CommitsOf("reviews")) = 1

\* a rejected statement is the last statement of the run
RejectedIsLast ==
    /\ \A i \in DOMAIN main.trace :
          main.trace[i].rejected =>
              /\ i = Len(main.trace)
              /\ main.status = "failed"
              /\ main.pc = Pos[main.trace[i].table]
              /\ Visited[Len(Visited)].table = main.trace[i].table
    /\ main.status = "failed" => ~ENABLED NextMain

\* a step leaves the rows of every committed table as they are
CommittedRowsKept ==
    \A t \in DOMAIN DDL : CommitsOf(t) # {} => stored'[t] = stored[t]

\* C15: a rejected ALTER TABLE or a rejected insert batch ends the run: no
\* further batch of the table is sent, no later table is queried, extended,
\* inserted into or committed, nothing is retried, and the rows of the
\* tables committed before stay as they were.
C15_FailureIsFatal == []RejectedIsLast /\ [][CommittedRowsKept]_vars

C15_Witness ==
    /\ main.status = "failed"
    /\ call.table = "customers"
    /\ call.fault = "alter"
    /\ main.trace[Len(main.trace)].req.op = "ALTER"
    /\ main.trace[Len(main.trace)].rejected
    /\ main.pc = 11
    /\ Cardinality(stored["channel_inventory"]) = MaxRows
    /\ \A t \in {"customers", "orders", "warehouses"} : stored[t] = {}

\* the columns whose ALTER TABLE the server accepted in the last call
AcceptedCols ==
    IF call.err = "alter"
    THEN SubSeq(AlterCols(call.ops), 1, Len(AlterCols(call.ops)) - 1)
    ELSE AlterCols(call.ops)

\* C16: schema extension is not rolled back: after a call that a rejected
\* insert or a rejected later ALTER TABLE ended, the table's column list is
\* its column list before the call followed by the columns already added.
C16_ExtensionNotRolledBack ==
    Called /\ call.err \in {"alter", "insert"} =>
        /\ schema[call.table] = call.schemaBefore \o AcceptedCols
        /\ ~call.committed

C16_Witness ==
    /\ Called /\ call.err = "alter" /\ call.table = "customers"
    /\ AlterCols(call.ops) = <<"notes", "category_name">>
    /\ call.schemaBefore = DDL["customers"]
    /\ schema["customers"] = Append(DDL["customers"], "notes")
    /\ stored["customers"] = {}

\* the insert batches of the last call, in call order
Batches == SelectSeq(call.ops, LAMBDA o : o.op = "INSERT")

RECURSIVE ConcatRows(_)
ConcatRows(bs) == IF bs = <<>> THEN <<>> ELSE Head(bs).rows \o ConcatRows(Tail(bs))

\* C17: load_table inserts in batches of the batch size, in dataset row
\* order: every batch carries at most the batch size, every batch but the
\* last exactly the batch size, the batches in call order concatenate to the
\* aligned dataset row for row, and a dataset of zero rows produces no insert.
C17_FixedSizeBatches ==
    MainCalled /\ call.err = "none" =>
        /\ \A i \in DOMAIN Batches :
              /\ Batches[i].n = Len(Batches[i].rows)
              /\ Batches[i].n >= 1
              /\ Batches[i].n <= main.size
              /\ i < Len(Batches) => Batches[i].n = main.size
        /\ ConcatRows(Batches) = call.out.rows
        /\ Len(call.out.rows) = Len(call.df.rows)
        /\ call.df.rows = <<>> => Batches = <<>>

C17_Witness ==
    /\ MainCalled /\ call.err = "none" /\ call.table = "customers"
    /\ main.size = SmallBatch
    /\ Len(Batches) = MaxRows
    /\ Batches[1].rows[1]["customer_id"] = IntV(2)
    /\ Batches[2].rows[1]["customer_id"] = IntV(1)
    /\ call.df.rows[1]["customer_id"] = IntV(2)

\* a file of zero rows is loaded and committed without an insert
C17_WitnessDefault ==
    /\ MainCalled /\ call.committed /\ main.size = BatchSize
    /\ call.df.rows = <<>> /\ Batches = <<>>

\* the rows the last call added to its table
AddedRows == Cardinality(stored[call.table]) - Cardinality(call.storedBefore)

OkNotices == SelectSeq(call.notices, LAMBDA x : x.kind = "OK")

\* C18 as stated: the [OK] notice of a loaded table reports the number of
\* rows the load added to the table (0 when every primary key of the dataset
\* was stored already).
C18_NoticeCountsAddedRows ==
    Called /\ call.committed =>
        OkNotices = <<Notice("OK", call.table, AddedRows)>>

\* C18, amended: the [OK] notice of a loaded table is printed after the
\* commit and reports the number of rows of the dataset file, which is at
\* least the number of rows the load added; a load that raises prints no
\* [OK] notice.
C18_NoticeCountsFileRows ==
    Called =>
        /\ call.committed =>
              /\ OkNotices = <<Notice("OK", call.table, Len(call.df.rows))>>
              /\ call.ops[Len(call.ops)].op = "COMMIT"
              /\ AddedRows <= Len(call.df.rows)
        /\ ~call.committed => OkNotices = <<>>

C18_Witness ==
    /\ Called /\ call.committed /\ call.again
    /\ Len(call.df.rows) = MaxRows
    /\ OkNotices = <<Notice("OK", call.table, MaxRows)>>
    /\ AddedRows = 0
    /\ Cardinality(stored[call.table]) = MaxRows

CountOps(op) == Len(SelectSeq(call.ops, LAMBDA o : o.op = op))

Repeat(x, n) == [i \in 1..n |-> x]

\* the SHOW COLUMNS queries of the last call, in call order
Shows == SelectSeq(call.ops, LAMBDA o : o.op = "SHOW")

\* C19: within one load_table call the statements are, in this order: one
\* SHOW COLUMNS; then, only if the dataset has extra columns and the flag
\* is set, the ALTER TABLE requests of all extra columns followed by exactly
\* one more SHOW COLUMNS; then the insert batches.  No ALTER TABLE follows an
\* insert, and every insert names the column list that the last SHOW
\* COLUMNS returned.
C19_StatementOrder ==
    Called =>
        /\ [i \in DOMAIN call.ops |-> call.ops[i].op]
             = <<"SHOW">> \o Repeat("ALTER", CountOps("ALTER"))
               \o (IF CountOps("ALTER") > 0 /\ call.err # "alter"
                   THEN <<"SHOW">> ELSE <<>>)
               \o Repeat("INSERT", CountOps("INSERT"))
               \o (IF call.committed THEN <<"COMMIT">> ELSE <<>>)
        /\ CountOps("ALTER") > 0
             <=> call.flag /\ ExtrasOf(call.df, call.schemaBefore) # <<>>
        /\ call.err # "alter" /\ call.flag =>
             AlterCols(call.ops) = ExtrasOf(call.df, call.schemaBefore)
        /\ Shows[1].cols = call.schemaBefore
        /\ call.err # "alter" =>
             /\ Shows[Len(Shows)].cols = schema[call.table]
             /\ \A i \in DOMAIN Batches : Batches[i].cols = Shows[Len(Shows)].cols

C19_Witness ==
    /\ Called /\ call.committed /\ call.table = "customers"
    /\ [i \in DOMAIN call.ops |-> call.ops[i].op]
         = <<"SHOW", "ALTER", "ALTER", "SHOW", "INSERT", "COMMIT">>
    /\ Shows[1].cols = DDL["customers"]
    /\ Shows[2].cols = DDL["customers"] \o <<"notes", "category_name">>
    /\ Batches[1].cols = Shows[2].cols

BothLoaded == nloads = 2 /\ call.flags # <<>>

\* C20: in main -> load_table the stored boolean of a cell of a designated
\* boolean column is determined by the cell's own raw text: two cells with
\* the same raw text, in the same file or in two files, are stored with the
\* same value whatever the other rows of the column hold.
C20_StoredBooleanFromOwnText ==
    BothLoaded =>
        \A f \in 1..2, g \in 1..2 :
            \A i \in DOMAIN call.files[f], j \in DOMAIN call.files[g] :
                call.files[f][i] = call.files[g][j]
                    => call.flags[f][i] = call.flags[g][j]

\* the file 1 alone stores 1; the file 1, (empty) stores 0 for the same text
C20_Divergence ==
    /\ BothLoaded
    /\ call.files = <<(<<(<<"1">>)>>), <<(<<"1">>), <<>> >> >>
    /\ call.flags = << <<IntV(1)>>, <<IntV(0), IntV(0)>> >>

Distinct(ks) == \A i \in DOMAIN ks, j \in DOMAIN ks : ks[i] = ks[j] => i = j

\* C21: every table generate_dataset produces gives pairwise distinct
\* primary-key values to its rows (the two listing_prices rows of a listing
\* included), and the load of a generated file into its empty table stores
\* as many rows as the file has.
C21_PrimaryKeysDistinct ==
    gen.phase # "off" =>
        /\ \A t \in DOMAIN DDL : Distinct(gen.keys[t])
        /\ gen.phase = "loaded" => gen.loaded.stored = gen.loaded.file

\* every table but listing_prices has distinct keys and loads in full
C21_OtherTablesDistinct ==
    gen.phase # "off" =>
        /\ \A t \in DOMAIN DDL \ {"listing_prices"} : Distinct(gen.keys[t])
        /\ gen.phase = "loaded" /\ gen.loaded.table # "listing_prices" =>
              gen.loaded.stored = gen.loaded.file

\* one product: six listing_prices rows with the keys 1, 1, 3, 3, 5, 5, of
\* which the load stores three
C21_Divergence ==
    /\ gen.phase = "loaded"
    /\ gen.n_products = 1
    /\ gen.keys["listing_prices"] = <<IntV(1), IntV(1), IntV(3), IntV(3), IntV(5), IntV(5)>>
    /\ gen.loaded = [table |-> "listing_prices", file |-> 6, stored |-> 3]

\* the file's columns the table did not have before the last call
CallExtras == Extra(call.df, call.schemaBefore)

\* C22: in every run started through main, whatever the command line, each
\* load_table call receives add_extras_as_null = true, so no call drops an
\* unknown file column: unless the server rejects a statement that adds
\* one, every unknown column is added to the table by an ALTER TABLE, is in
\* the table's column list after the call and in the aligned frame.
C22_MainAlwaysExtends ==
    /\ main.status \in {"running", "done", "failed"} => main.flag
    /\ main.status = "usage" => ~MainCalled
    /\ MainCalled =>
          /\ call.flag
          /\ call.err # "alter" =>
                /\ AlterCols(call.ops) = CallExtras
                /\ Range(CallExtras) \subseteq Range(schema[call.table])
                /\ call.schemaBefore \o CallExtras = call.cols
                /\ Range(CallExtras) \subseteq Range(call.out.cols)

\* a run with no option on the command line loads a customers file with two
\* unknown columns: both are added
C22_Witness ==
    /\ main.argv = "absent"
    /\ MainCalled /\ call.table = "customers" /\ call.err = "none"
    /\ CallExtras = <<"notes", "category_name">>
    /\ schema["customers"] = DDL["customers"] \o <<"notes", "category_name">>
    /\ call.out.rows # <<>>

====
